---------------------------- MODULE Spec2Model ----------------------------
(***************************************************************************)
(* A model of utctimestamp (src/src/lib.rs): the millisecond timestamp     *)
(* UtcTimeStamp(i64), the millisecond duration TimeDelta(i64), the         *)
(* TimeRange iterator and the conversion to and from chrono's DateTime.    *)
(*                                                                         *)
(* Machine integers.  UtcTimeStamp and TimeDelta wrap an i64.  The         *)
(* arithmetic and the iterator are modelled over a two's-complement word   *)
(* MinInt..MaxInt of reduced width, so that the model checker can reach    *)
(* both ends of the range; all the operators below are written in terms    *)
(* of MinInt, MaxInt and Modulus only.  Rust's +, - and * on i64 panic on  *)
(* overflow when the crate is built with overflow checks (the debug and    *)
(* test profiles) and wrap around otherwise (the release profile); the     *)
(* profile is the variable overflow_checks, chosen freely in the initial   *)
(* state.  Rust's / and % panic in every profile on a zero divisor and on  *)
(* MinInt / -1.                                                            *)
(*                                                                         *)
(* The chrono conversion uses the literal constants 1000 and 1_000_000;    *)
(* it is modelled on true integers near the epoch, where no i64            *)
(* operation of the conversion can overflow.                               *)
(***************************************************************************)
EXTENDS Integers, Sequences, FiniteSets, TLC

VARIABLES
    overflow_checks,  \* build profile: TRUE = overflow checks on (debug/test)
    tr,               \* the TimeRange: [cur, end, step, right_closed]
    start,            \* the start argument the TimeRange was constructed with
    emitted,          \* the values next() has returned so far, in order
    last,             \* outcome of the latest next(): "init" (none yet), "some", "none", "panic"
    none_calls,       \* number of calls of next() that returned None
    pc,               \* position of the pure-function and conversion scenarios
    ts,               \* UtcTimeStamp input  (self)
    anchor,           \* UtcTimeStamp input  (anchor)
    delta,            \* TimeDelta input     (freq / rhs)
    res,              \* first result of the applied operation
    res2,             \* second result of the applied operation
    dt,               \* chrono DateTime<Utc> input: [secs, nsecs]
    stamp,            \* UtcTimeStamp made from dt
    back              \* DateTime made from stamp, or a panic

vars == <<overflow_checks, tr, start, emitted, last, none_calls,
          pc, ts, anchor, delta, res, res2, dt, stamp, back>>

rangeVars == <<tr, start, emitted, last, none_calls>>
arithVars == <<ts, anchor, delta, res, res2>>
convVars  == <<dt, stamp, back>>

-----------------------------------------------------------------------------
(* Bounds of the model *)

\* Largest value of the reduced machine word (stands for i64::MAX).
MaxInt == 7

\* Calls of next() observed after the range is exhausted.
MaxNoneCalls == 2

\* Seconds before and after the epoch the conversion scenario covers.
MaxSecs == 2

MinInt == -(MaxInt + 1)
Modulus == 2 * (MaxInt + 1)
I64 == MinInt..MaxInt

\* Bound on the number of emitted values in runs that never exhaust; larger
\* than the number of values of the machine word, so that every range that
\* the code exhausts is exhausted below it.
MaxEmit == Modulus + 2

-----------------------------------------------------------------------------
(* i64 arithmetic as Rust performs it *)

Ok(v) == [panic |-> FALSE, v |-> v]
Panic == [panic |-> TRUE, v |-> 0]

InI64(x) == MinInt <= x /\ x <= MaxInt

\* two's-complement wrap-around into the machine word
Wrap(x) == ((x - MinInt) % Modulus) + MinInt

\* the outcome of an overflowing +, - or *: in range, panic, or wrapped
Overflowing(x) ==
    IF InI64(x) THEN Ok(x)
    ELSE IF overflow_checks THEN Panic
    ELSE Ok(Wrap(x))

i64_add(a, b) == Overflowing(a + b)
i64_sub(a, b) == Overflowing(a - b)
i64_mul(a, b) == Overflowing(a * b)

Abs(x) == IF x < 0 THEN -x ELSE x

\* integer division truncating toward zero (b # 0)
TruncDiv(a, b) ==
    IF (a >= 0) = (b > 0) THEN Abs(a) \div Abs(b) ELSE -(Abs(a) \div Abs(b))

\* Rust's a / b on i64
i64_div(a, b) ==
    IF b = 0 THEN Panic
    ELSE IF a = MinInt /\ b = -1 THEN Panic
    ELSE Ok(TruncDiv(a, b))

\* the remainder of the truncating division: it has the sign of a (b # 0)
TruncRem(a, b) == a - b * TruncDiv(a, b)

-----------------------------------------------------------------------------
(* UtcTimeStamp *)

\* UtcTimeStamp::zero()
zero == 0

\* Add<TimeDelta> for UtcTimeStamp: UtcTimeStamp(self.0 + rhs.0)
add(self, rhs) == i64_add(self, rhs)

\* Sub<TimeDelta> for UtcTimeStamp: UtcTimeStamp(self.0 - rhs.0)
sub(self, rhs) == i64_sub(self, rhs)

\* A faulty difference with the operands exchanged.
sub_timestamp_reversed(self, rhs) == i64_sub(rhs, self)

\* Sub<UtcTimeStamp> for UtcTimeStamp: TimeDelta(self.0 - rhs.0)
sub_timestamp(self, rhs) == i64_sub(self, rhs)

\* A faulty add_assign that leaves the timestamp where it is.
add_assign_noop(self, rhs) == Ok(self)

\* AddAssign<TimeDelta> for UtcTimeStamp: *self = *self + rhs
add_assign(self, rhs) == add(self, rhs)

\* A faulty alignment that forgets the anchor: self.0 / freq.0 * freq.0.
align_to_anchored_unanchored(self, anchor_, freq) ==
    LET q == i64_div(self, freq)
    IN  IF q.panic THEN Panic ELSE i64_mul(q.v, freq)

\* A faulty alignment that lands one bucket further: ... * freq.0 + freq.0 + anchor.0.
align_to_anchored_next_bucket(self, anchor_, freq) ==
    LET d == i64_sub(self, anchor_)
        q == IF d.panic THEN Panic ELSE i64_div(d.v, freq)
        m == IF q.panic THEN Panic ELSE i64_mul(q.v, freq)
        n == IF m.panic THEN Panic ELSE i64_add(m.v, freq)
    IN  IF n.panic THEN Panic ELSE i64_add(n.v, anchor_)

\* (self.0 - anchor.0) / freq.0 * freq.0 + anchor.0, evaluated left to
\* right; a panic of one operation is the panic of the whole expression
align_to_anchored(self, anchor_, freq) ==
    LET d == i64_sub(self, anchor_)
        q == IF d.panic THEN Panic ELSE i64_div(d.v, freq)
        m == IF q.panic THEN Panic ELSE i64_mul(q.v, freq)
    IN  IF m.panic THEN Panic ELSE i64_add(m.v, anchor_)

\* self.align_to_anchored(UtcTimeStamp::zero(), freq)
align_to(self, freq) == align_to_anchored(self, zero, freq)

-----------------------------------------------------------------------------
(* TimeRange *)

Some(v) == <<v>>
None == <<>>

\* TimeRange::right_closed(start, end, step)
right_closed(start_, end_, step_) ==
    [cur |-> start_, end |-> end_, step |-> step_, right_closed |-> TRUE]

\* TimeRange::right_open(start, end, step)
right_open(start_, end_, step_) ==
    [cur |-> start_, end |-> end_, step |-> step_, right_closed |-> FALSE]

\* A faulty test that treats every range as right-open.
exhausted_always_open(self) == self.cur >= self.end

\* A faulty test that treats every range as right-closed.
exhausted_always_closed(self) == self.cur > self.end

\* A faulty test with the comparisons turned around.
exhausted_flipped(self) ==
    IF self.right_closed THEN self.cur < self.end ELSE self.cur <= self.end

\* let exhausted = if self.right_closed { cur > end } else { cur >= end }
exhausted(self) ==
    IF self.right_closed THEN self.cur > self.end ELSE self.cur >= self.end

\* A faulty next() that advances the cursor before it tests for exhaustion.
next_advancing(self) ==
    LET sum == add_assign(self.cur, self.step)
        adv == [self EXCEPT !.cur = sum.v]
    IN  IF sum.panic THEN [panic |-> TRUE, ret |-> None, self |-> self]
        ELSE IF exhausted(self) THEN [panic |-> FALSE, ret |-> None, self |-> adv]
        ELSE [panic |-> FALSE, ret |-> Some(self.cur), self |-> adv]

\* A faulty next() that returns the cursor after advancing it.
next_post_increment(self) ==
    IF exhausted(self)
    THEN [panic |-> FALSE, ret |-> None, self |-> self]
    ELSE LET sum == add_assign(self.cur, self.step)
         IN  IF sum.panic
             THEN [panic |-> TRUE, ret |-> None, self |-> self]
             ELSE [panic |-> FALSE, ret |-> Some(sum.v),
                   self |-> [self EXCEPT !.cur = sum.v]]

\* Iterator::next for TimeRange.  The outcome is the returned Option (ret),
\* the TimeRange after the call (self) and whether the call panicked, which
\* it does inside `self.cur += self.step`, before anything is returned.
next(self) ==
    IF exhausted(self)
    THEN [panic |-> FALSE, ret |-> None, self |-> self]
    ELSE LET cur == self.cur
             sum == add_assign(self.cur, self.step)
         IN  IF sum.panic
             THEN [panic |-> TRUE, ret |-> None, self |-> self]
             ELSE [panic |-> FALSE, ret |-> Some(cur),
                   self |-> [self EXCEPT !.cur = sum.v]]

\* Iterator::collect on a TimeRange: the values next() returns up to the
\* first None, or a panic when a call of next() panics.  `fuel` bounds the
\* number of calls followed; a run that has not ended by then is cut there.
RECURSIVE collect(_, _)
collect(self, fuel) ==
    LET n == next(self)
    IN  IF n.panic THEN Panic
        ELSE IF fuel = 0 \/ n.ret = None THEN Ok(<<>>)
        ELSE LET rest == collect(n.self, fuel - 1)
             IN  IF rest.panic THEN Panic ELSE Ok(n.ret \o rest.v)

-----------------------------------------------------------------------------
(* The TimeRange scenario: a range is constructed from any start, end and  *)
(* step by either constructor, and a consumer calls next() repeatedly.     *)

IdleRange ==
    /\ tr = right_closed(0, 0, 0) /\ start = 0
    /\ emitted = <<>> /\ last = "init" /\ none_calls = 0

IdleArith ==
    /\ ts = 0 /\ anchor = 0 /\ delta = 0 /\ res = Ok(0) /\ res2 = Ok(0)

IdleConv ==
    /\ dt = [secs |-> 0, nsecs |-> 0] /\ stamp = 0 /\ back = Ok(0)

InitRange ==
    /\ overflow_checks \in BOOLEAN
    /\ \E start_ \in I64, end_ \in I64, step_ \in I64 :
          /\ start = start_
          /\ tr \in {right_closed(start_, end_, step_), right_open(start_, end_, step_)}
    /\ emitted = <<>>
    /\ last = "init"
    /\ none_calls = 0
    /\ pc = "range"
    /\ IdleArith
    /\ IdleConv

\* One call of next() by the consumer.
NextCall ==
    /\ last # "panic"
    /\ Len(emitted) < MaxEmit
    /\ none_calls < MaxNoneCalls
    /\ LET n == next(tr)
       IN  /\ tr' = n.self
           /\ emitted' = emitted \o n.ret
           /\ last' = IF n.panic THEN "panic"
                      ELSE IF n.ret = None THEN "none" ELSE "some"
           /\ none_calls' = IF ~n.panic /\ n.ret = None
                            THEN none_calls + 1 ELSE none_calls
    /\ UNCHANGED <<overflow_checks, start, pc, arithVars, convVars>>

NextRange == NextCall

SpecRange == InitRange /\ [][NextRange]_vars

\* The consumer keeps calling next() for as long as it gets values.
FairSpecRange == SpecRange /\ WF_vars(NextCall)

-----------------------------------------------------------------------------
(* What a range is expected to produce, stated on true integers *)

\* v lies inside the interval [.., end_] (closed) or [.., end_) (open)
Inside(v, end_, closed) == IF closed THEN v <= end_ ELSE v < end_

\* the number of k >= 0 with start_ + k*step_ inside the interval (step_ > 0)
Count(start_, end_, step_, closed) ==
    Cardinality({k \in 0..Modulus : Inside(start_ + k * step_, end_, closed)})

\* start_ + k*step_ for k = 0, 1, ... while inside the interval
Expected(start_, end_, step_, closed) ==
    [i \in 1..Count(start_, end_, step_, closed) |-> start_ + (i - 1) * step_]

\* the first value start_ + k*step_ beyond the interval: where the cursor
\* stands when the range is exhausted
FirstPast(start_, end_, step_, closed) ==
    start_ + Count(start_, end_, step_, closed) * step_

\* the cursor of this range never leaves the i64 range
CursorFits == FirstPast(start, tr.end, tr.step, tr.right_closed) <= MaxInt

IsPrefix(s, t) == Len(s) <= Len(t) /\ \A i \in 1..Len(s) : s[i] = t[i]

ExpectedHere == Expected(start, tr.end, tr.step, tr.right_closed)

\* the emitted values are the expected ones in order, exhaustion is reported
\* only after all of them, and is due once all of them are out
EmitsExpected ==
    /\ last # "panic"
    /\ IsPrefix(emitted, ExpectedHere)
    /\ (last = "none" => emitted = ExpectedHere)
    /\ (emitted = ExpectedHere => exhausted(tr))

-----------------------------------------------------------------------------
(* Claims about TimeRange *)

\* C1 as stated: for every start <= end and step > 0, right_closed emits
\* exactly start + k*step <= end in order and then reports exhaustion.
C1_AsStated ==
    (tr.right_closed /\ start <= tr.end /\ tr.step > 0) => EmitsExpected

\* C1: for every start <= end and step > 0 for which the cursor stays within
\* i64 (the first start + k*step beyond end is at most i64::MAX),
\* right_closed emits exactly the values start + k*step <= end, in order,
\* and then reports exhaustion; end itself is emitted when it is reachable.
C1_RightClosedSequence ==
    (tr.right_closed /\ start <= tr.end /\ tr.step > 0 /\ CursorFits)
        => EmitsExpected

\* five values, the last of them end, then exhaustion
C1_Witness ==
    /\ tr.right_closed /\ start <= tr.end /\ tr.step > 1 /\ CursorFits
    /\ last = "none"
    /\ Len(emitted) = 5
    /\ emitted[5] = tr.end

\* the right_closed run over the inputs of this range
ClosedRun == collect(right_closed(start, tr.end, tr.step), MaxEmit)

ClosedFits == FirstPast(start, tr.end, tr.step, TRUE) <= MaxInt

\* the open sequence is the closed one with the value end removed
OpenIsClosedMinusEnd ==
    (last = "none") =>
        /\ ~ClosedRun.panic
        /\ emitted = SelectSeq(ClosedRun.v, LAMBDA v : v # tr.end)

\* C2 as stated: for every start <= end and step > 0, right_open emits
\* exactly start + k*step < end in order, never end, and its sequence is the
\* right_closed one with end removed.
C2_AsStated ==
    (~tr.right_closed /\ start <= tr.end /\ tr.step > 0)
        => (EmitsExpected /\ OpenIsClosedMinusEnd)

\* C2: for every start <= end and step > 0 for which the cursor stays within
\* i64, right_open emits exactly the values start + k*step < end, in
\* increasing order, and never end; when the right_closed range over the
\* same inputs stays within i64 too, the open sequence is the closed one
\* with the value end removed.
C2_RightOpenSequence ==
    (~tr.right_closed /\ start <= tr.end /\ tr.step > 0 /\ CursorFits)
        => /\ EmitsExpected
           /\ \A i \in 1..Len(emitted) : emitted[i] < tr.end
           /\ \A i \in 1..(Len(emitted) - 1) : emitted[i] < emitted[i + 1]
           /\ (ClosedFits => OpenIsClosedMinusEnd)

\* four values where the closed range has five
C2_Witness ==
    /\ ~tr.right_closed /\ start <= tr.end /\ tr.step > 1 /\ CursorFits
    /\ ClosedFits
    /\ last = "none"
    /\ Len(emitted) = 4
    /\ Len(ClosedRun.v) = 5
    /\ ClosedRun.v[5] = tr.end

\* C7: once next() has returned None, every later call returns None and
\* leaves cursor, end, step and closedness unchanged; nothing more is emitted.
C7_Sticky ==
    [][last = "none" => (last' = "none" /\ tr' = tr /\ emitted' = emitted)]_vars

\* next() was called again after it had returned None, on a range that had
\* emitted values and whose step is not zero
C7_Witness ==
    /\ last = "none"
    /\ none_calls >= 2
    /\ emitted # <<>>
    /\ tr.step # 0

\* start is not past the end bound, as the claim reads it
C8_StartLeEnd == start <= tr.end

\* start is not past the end bound, as next() tests it
C8_StartInside == Inside(start, tr.end, tr.right_closed)

\* C8 as stated: whenever start <= end, the first call of next() produces
\* start, for both constructors and any step.
C8_AsStated ==
    (C8_StartLeEnd /\ last # "init")
        => (emitted # <<>> /\ emitted[1] = start)

\* C8: whenever start <= end (right_closed) or start < end (right_open), the
\* first call of next() produces start, for any step -- except that in a
\* build with overflow checks the call panics when start + step overflows.
\* A right_open range with start = end produces nothing.
C8_LeftClosed ==
    /\ (C8_StartInside /\ last # "init")
          => IF overflow_checks /\ ~InI64(start + tr.step)
             THEN last = "panic" /\ emitted = <<>>
             ELSE emitted # <<>> /\ emitted[1] = start
    /\ (~C8_StartInside /\ last # "init") => (last = "none" /\ emitted = <<>>)

\* the first call has produced start, on a range whose cursor then moved
C8_Witness ==
    /\ C8_StartInside
    /\ emitted = <<start>>
    /\ tr.cur # start

\* C9 as stated: with step <= 0 and end > start the first call of next()
\* reports exhaustion and nothing is ever emitted.
C9_AsStated ==
    (tr.step <= 0 /\ tr.end > start)
        => (emitted = <<>> /\ last \in {"init", "none"})

\* C9: with step <= 0 and the end bound LESS than start the range is
\* exhausted at once: the first call of next() returns None and nothing is
\* ever emitted.  (With end > start the range is not exhausted at the first
\* call.)
C9_EmptyWhenEndBeforeStart ==
    /\ (tr.step <= 0 /\ tr.end < start)
          => (emitted = <<>> /\ last \in {"init", "none"})
    /\ (tr.step <= 0 /\ tr.end > start /\ last = "none") => emitted # <<>>

\* a first call that returned None, with a non-positive step
C9_Witness ==
    /\ tr.step <= 0 /\ tr.end < start
    /\ last = "none"
    /\ emitted = <<>>

\* each emission has advanced the cursor by exactly step, and no more values
\* are out than the interval holds
C10_Advancing ==
    /\ last # "panic"
    /\ tr.cur = start + Len(emitted) * tr.step
    /\ Len(emitted) <= Count(start, tr.end, tr.step, tr.right_closed)

\* C10 as stated: for every start, end and step > 0, by either constructor,
\* the range is finite and the cursor advances by exactly step per emission.
C10_AsStated == (tr.step > 0) => C10_Advancing

\* C10: for every start, end and step > 0 for which the cursor stays within
\* i64, by either constructor, repeated calls of next() reach exhaustion
\* after finitely many values, the cursor advancing by exactly step on each
\* emission.  With an end so close to i64::MAX that the cursor overflows,
\* next() panics or wraps around and goes on.
C10_Finite ==
    /\ []((tr.step > 0 /\ CursorFits) => C10_Advancing)
    /\ ((tr.step > 0 /\ CursorFits) => <>(last = "none"))

\* a range ending at the largest value the cursor can pass, exhausted
C10_Witness ==
    /\ tr.step > 0 /\ CursorFits
    /\ tr.cur = MaxInt
    /\ last = "none"
    /\ Len(emitted) >= 3

-----------------------------------------------------------------------------
(* The arithmetic scenario: a timestamp, an anchor and a time delta are    *)
(* drawn from the whole machine word and one of the operations is applied. *)

InitArith ==
    /\ overflow_checks \in BOOLEAN
    /\ ts \in I64 /\ anchor \in I64 /\ delta \in I64
    /\ pc = "start"
    /\ res = Ok(0) /\ res2 = Ok(0)
    /\ IdleRange
    /\ IdleConv

\* res = ts.align_to_anchored(anchor, delta)
AlignAnchored ==
    /\ pc = "start"
    /\ pc' = "align_to_anchored"
    /\ res' = align_to_anchored(ts, anchor, delta)
    /\ res2' = res'
    /\ UNCHANGED <<overflow_checks, ts, anchor, delta, rangeVars, convVars>>

\* res = ts.align_to(delta); res2 = ts.align_to(delta).align_to(delta)
AlignTwice ==
    /\ pc = "start"
    /\ pc' = "align_to"
    /\ res' = align_to(ts, delta)
    /\ res2' = LET once == align_to(ts, delta)
               IN  IF once.panic THEN Panic ELSE align_to(once.v, delta)
    /\ UNCHANGED <<overflow_checks, ts, anchor, delta, rangeVars, convVars>>

\* res = (ts + delta) - delta; res2 = (ts + delta) - ts
AddSub ==
    /\ pc = "start"
    /\ pc' = "add_sub"
    /\ LET sum == add(ts, delta)
       IN  /\ res' = IF sum.panic THEN Panic ELSE sub(sum.v, delta)
           /\ res2' = IF sum.panic THEN Panic ELSE sub_timestamp(sum.v, ts)
    /\ UNCHANGED <<overflow_checks, ts, anchor, delta, rangeVars, convVars>>

NextArith == AlignAnchored \/ AlignTwice \/ AddSub

SpecArith == InitArith /\ [][NextArith]_vars

-----------------------------------------------------------------------------
(* Claims about the arithmetic *)

\* v is the largest anchor + k*delta that is <= ts
SnappedDown(v) ==
    /\ \E k \in (-Modulus)..Modulus : v = anchor + k * delta
    /\ v <= ts
    /\ ts < v + delta

\* v is the smallest anchor + k*delta that is >= ts
SnappedUp(v) ==
    /\ \E k \in (-Modulus)..Modulus : v = anchor + k * delta
    /\ v >= ts
    /\ ts > v - delta

C5_AsStated ==
    (pc = "align_to" /\ delta # 0)
        => (~res.panic /\ ~res2.panic /\ res2.v = res.v)

\* C5: for every t and every non-zero freq, positive or negative, other than
\* t = i64::MIN with freq = -1 ms, t.align_to(freq).align_to(freq) ==
\* t.align_to(freq).  For t = i64::MIN and freq = -1 ms the division
\* overflows and align_to panics.
C5_Idempotent ==
    /\ (pc = "align_to" /\ delta # 0 /\ ~(ts = MinInt /\ delta = -1))
          => (~res.panic /\ ~res2.panic /\ res2.v = res.v)
    /\ (pc = "align_to" /\ ts = MinInt /\ delta = -1) => res.panic

\* a negative frequency and a timestamp that alignment moves
C5_Witness ==
    /\ pc = "align_to" /\ delta < -1
    /\ ~res.panic /\ ~res2.panic
    /\ res.v # ts
    /\ res.v # 0
    /\ res2.v = res.v

\* C6 as stated: for every t and d of the whole range, (t + d) - d == t and
\* (t + d) - t == d.
C6_AsStated ==
    (pc = "add_sub")
        => (~res.panic /\ res.v = ts /\ ~res2.panic /\ res2.v = delta)

\* C6: (t + d) - d == t and (t + d) - t == d for every t and d whose sum
\* t + d is within i64, and, in a build without overflow checks, for every
\* t and d (the sum wraps around and the subtraction wraps back).  In a
\* build with overflow checks t + d panics when the sum is out of range.
C6_AddSubInverse ==
    /\ (pc = "add_sub" /\ (InI64(ts + delta) \/ ~overflow_checks))
          => (~res.panic /\ res.v = ts /\ ~res2.panic /\ res2.v = delta)
    /\ (pc = "add_sub" /\ ~InI64(ts + delta) /\ overflow_checks)
          => (res.panic /\ res2.panic)

\* the identities across a wrapped sum
C6_Witness ==
    /\ pc = "add_sub" /\ ~overflow_checks /\ ~InI64(ts + delta)
    /\ ts # 0 /\ delta # ts
    /\ ~res.panic /\ res.v = ts
    /\ ~res2.panic /\ res2.v = delta

-----------------------------------------------------------------------------
(* Conversion to and from chrono::DateTime<Utc>.  A DateTime is the pair   *)
(* chrono keeps: whole seconds since the epoch, rounded down, and the      *)
(* nanoseconds 0..999_999_999 into that second.  The i64 values of this    *)
(* scenario stay within a few thousand of zero, so the operations on them  *)
(* are exact; the `as u32` cast is modelled on 16-bit halves, a u32 being  *)
(* [hi, lo] with value hi * 65536 + lo.                                    *)

MillisPerSec == 1000
NanosPerMilli == 1000000
Half == 65536

\* the largest nanosecond count chrono accepts is below 2_000_000_000,
\* which is NsecLimitHi * 65536 + NsecLimitLo
NsecLimitHi == 30517
NsecLimitLo == 37888

\* chrono's DateTime::timestamp_millis(): seconds * 1000 + milliseconds
timestamp_millis(d) == d.secs * MillisPerSec + (d.nsecs \div NanosPerMilli)

\* From<DateTime<Utc>> for UtcTimeStamp: Self(other.timestamp_millis())
from_datetime(other) == timestamp_millis(other)

\* x as u32 for an i64 x: x modulo 2^32
as_u32(x) == [hi |-> (x \div Half) % Half, lo |-> x % Half]

\* chrono's NaiveDateTime::from_timestamp(secs, nsecs): panics on an
\* invalid nanosecond count (nsecs >= 2_000_000_000)
from_timestamp(secs, nsecs) ==
    IF nsecs.hi > NsecLimitHi \/ (nsecs.hi = NsecLimitHi /\ nsecs.lo >= NsecLimitLo)
    THEN Panic
    ELSE Ok([secs |-> secs, nsecs |-> nsecs.hi * Half + nsecs.lo])

\* From<UtcTimeStamp> for DateTime<Utc>:
\*   sec = other.0 / 1000; ns = (other.0 % 1000 * 1_000_000) as u32;
\*   from_utc(NaiveDateTime::from_timestamp(sec, ns), Utc)
into_datetime(other) ==
    LET sec == TruncDiv(other, MillisPerSec)
        ns  == as_u32(TruncRem(other, MillisPerSec) * NanosPerMilli)
    IN  from_timestamp(sec, ns)

\* the calendar datetimes with a whole number of milliseconds, MaxSecs
\* seconds to either side of the epoch
DateTimes ==
    {[secs |-> s, nsecs |-> m * NanosPerMilli] :
        s \in (-MaxSecs)..MaxSecs, m \in 0..(MillisPerSec - 1)}

InitConv ==
    /\ overflow_checks \in BOOLEAN
    /\ dt \in DateTimes
    /\ pc = "datetime"
    /\ stamp = 0
    /\ back = Ok(0)
    /\ IdleRange
    /\ IdleArith

\* stamp = UtcTimeStamp::from(dt)
FromDateTime ==
    /\ pc = "datetime"
    /\ pc' = "timestamp"
    /\ stamp' = from_datetime(dt)
    /\ UNCHANGED <<overflow_checks, dt, back, rangeVars, arithVars>>

\* back = DateTime::<Utc>::from(stamp)
IntoDateTime ==
    /\ pc = "timestamp"
    /\ pc' = "back"
    /\ back' = into_datetime(stamp)
    /\ UNCHANGED <<overflow_checks, dt, stamp, rangeVars, arithVars>>

NextConv == FromDateTime \/ IntoDateTime

SpecConv == InitConv /\ [][NextConv]_vars

-----------------------------------------------------------------------------
(* Claims about the conversion *)

\* C3: for every calendar UTC datetime d, before or after the epoch, with a
\* whole number of milliseconds, converting d to a UtcTimeStamp and back
\* yields d: the seconds are floor(ms / 1000) and the nanoseconds are
\* within 0..999_999_999.
C3_RoundTrip ==
    (pc = "back")
        => /\ ~back.panic
           /\ back.v = dt
           /\ back.v.secs = stamp \div MillisPerSec
           /\ back.v.nsecs \in 0..999999999

\* The round trip does hold for the datetimes at or after the epoch and for
\* those on a whole second; every other one before the epoch panics.
RoundTripWhereItHolds ==
    (pc = "back")
        => IF stamp >= 0 \/ dt.nsecs = 0
           THEN ~back.panic /\ back.v = dt
           ELSE back.panic

=============================================================================
